---- MODULE Spec2Model ----
(***************************************************************************)
(* Model of localstack/services/es/provider.py: the Elasticsearch-service  *)
(* API provider that forwards every operation to the OpenSearch backend    *)
(* client and translates requests and responses between the two dialects.  *)
(*                                                                         *)
(* Python values are modelled as tagged records so that None, strings,     *)
(* dicts and lists can be told apart and compared:                         *)
(*   None            [t |-> "None"]                                        *)
(*   str             [t |-> "str",  v |-> sequence of characters]          *)
(*   dict            [t |-> "dict", v |-> function from key to value]      *)
(*   list            [t |-> "list", v |-> sequence of values]              *)
(* A dict key that is absent is absent from the DOMAIN of the function; a  *)
(* key that is present with the value None is in the DOMAIN and maps to    *)
(* None.  The two are different, as they are in Python.                    *)
(***************************************************************************)
EXTENDS Integers, Sequences, FiniteSets, TLC

(***************************************************************************)
(* Bounds of the model.                                                    *)
(***************************************************************************)
\* longest version text (after an optional dialect prefix)
MaxVersionLen == 2
\* longest list a backend response carries
MaxListLen == 2

(***************************************************************************)
(* Python values.                                                          *)
(***************************************************************************)
None == [t |-> "None"]
Str(s) == [t |-> "str", v |-> s]
Dict(f) == [t |-> "dict", v |-> f]
List(q) == [t |-> "list", v |-> q]
EmptyDict == Dict([k \in {} |-> None])

\* dict.get(key): the value, or None when the key is absent
Get(d, k) == IF k \in DOMAIN d.v THEN d.v[k] ELSE None
\* d[key] = value
Put(d, k, x) == Dict([kk \in (DOMAIN d.v) \cup {k} |-> IF kk = k THEN x ELSE d.v[kk]])
\* d.pop(key, None)
Pop(d, k) == Dict([kk \in (DOMAIN d.v) \ {k} |-> d.v[kk]])
Keys(d) == DOMAIN d.v

(***************************************************************************)
(* Python str operations on sequences of characters.                       *)
(***************************************************************************)
\* s.startswith(p)
StartsWith(s, p) == Len(s) >= Len(p) /\ SubSeq(s, 1, Len(p)) = p

\* s.split(sep) for a one-character separator: the list of the parts
RECURSIVE SplitFrom(_, _, _)
SplitFrom(s, sep, cur) ==
    IF s = <<>> THEN <<cur>>
    ELSE IF Head(s) = sep THEN <<cur>> \o SplitFrom(Tail(s), sep, <<>>)
    ELSE SplitFrom(Tail(s), sep, Append(cur, Head(s)))
Split(s, sep) == SplitFrom(s, sep, <<>>)

\* s.replace(old, new): every non-overlapping occurrence, left to right
RECURSIVE Replace(_, _, _)
Replace(s, old, new) ==
    IF s = <<>> THEN <<>>
    ELSE IF StartsWith(s, old) THEN new \o Replace(SubSeq(s, Len(old) + 1, Len(s)), old, new)
    ELSE <<Head(s)>> \o Replace(Tail(s), old, new)

\* the string literals of the source
OpenSearch_ == <<"O", "p", "e", "n", "S", "e", "a", "r", "c", "h", "_">>
Elasticsearch_ == <<"E", "l", "a", "s", "t", "i", "c", "s", "e", "a", "r", "c", "h", "_">>
elasticsearch == <<"e", "l", "a", "s", "t", "i", "c", "s", "e", "a", "r", "c", "h">>
search == <<"s", "e", "a", "r", "c", "h">>

(***************************************************************************)
(* The translators (module-level functions of provider.py).                *)
(***************************************************************************)
_version_to_opensearch(version) ==
    IF version # None
    THEN IF StartsWith(version.v, OpenSearch_)
         THEN version
         ELSE Str(Elasticsearch_ \o version.v)
    ELSE None

_version_from_opensearch(version) ==
    IF version # None
    THEN IF StartsWith(version.v, Elasticsearch_)
         THEN Str(Split(version.v, "_")[2])
         ELSE version
    ELSE None

_instancetype_to_opensearch(instance_type) ==
    IF instance_type # None
    THEN Str(Replace(instance_type.v, elasticsearch, search))
    ELSE None

_instancetype_from_opensearch(instance_type) ==
    IF instance_type # None
    THEN Str(Replace(instance_type.v, search, elasticsearch))
    ELSE None

\* cast() returns its argument: result is the very dict that was passed in,
\* and the three assignments are made on it.  The value of this operator is
\* both what the function returns and what the passed object holds afterwards.
_clusterconfig_from_opensearch(cluster_config) ==
    IF cluster_config # None
    THEN LET r1 == Put(cluster_config, "InstanceType",
                       _instancetype_from_opensearch(Get(cluster_config, "InstanceType")))
             r2 == Put(r1, "DedicatedMasterType",
                       _instancetype_from_opensearch(Get(r1, "DedicatedMasterType")))
             r3 == Put(r2, "WarmType",
                       _instancetype_from_opensearch(Get(r2, "WarmType")))
         IN  r3
    ELSE None

_clusterconfig_to_opensearch(elasticsearch_cluster_config) ==
    IF elasticsearch_cluster_config # None
    THEN LET r1 == Put(elasticsearch_cluster_config, "InstanceType",
                       _instancetype_to_opensearch(Get(elasticsearch_cluster_config, "InstanceType")))
             r2 == Put(r1, "DedicatedMasterType",
                       _instancetype_to_opensearch(Get(r1, "DedicatedMasterType")))
             r3 == Put(r2, "WarmType",
                       _instancetype_to_opensearch(Get(r2, "WarmType")))
         IN  r3
    ELSE None

\* a plausible slip: the current-named version field is left in the result
_domainstatus_from_opensearch_keeps_engine(domain_status) ==
    IF domain_status # None
    THEN LET r1 == Put(domain_status, "ElasticsearchVersion",
                       _version_from_opensearch(Get(domain_status, "EngineVersion")))
             r2 == Put(r1, "ElasticsearchClusterConfig",
                       _clusterconfig_from_opensearch(Get(r1, "ClusterConfig")))
         IN  Pop(r2, "ClusterConfig")
    ELSE None

_domainstatus_from_opensearch(domain_status) ==
    IF domain_status # None
    THEN LET r1 == Put(domain_status, "ElasticsearchVersion",
                       _version_from_opensearch(Get(domain_status, "EngineVersion")))
             r2 == Put(r1, "ElasticsearchClusterConfig",
                       _clusterconfig_from_opensearch(Get(r1, "ClusterConfig")))
             r3 == Pop(r2, "EngineVersion")
             r4 == Pop(r3, "ClusterConfig")
         IN  r4
    ELSE None

_domainconfig_from_opensearch(domain_config) ==
    IF domain_config # None
    THEN LET r1 == Put(domain_config, "ElasticsearchVersion",
                       _version_from_opensearch(Get(domain_config, "EngineVersion")))
             r2 == Put(r1, "ElasticsearchClusterConfig",
                       _clusterconfig_from_opensearch(Get(r1, "ClusterConfig")))
             r3 == Pop(r2, "EngineVersion")
             r4 == Pop(r3, "ClusterConfig")
         IN  r4
    ELSE None

\* CompatibleVersionsMap(SourceVersion=..., TargetVersions=[...])
CompatibleVersionsMap(source, targets) ==
    Dict([k \in {"SourceVersion", "TargetVersions"} |->
            IF k = "SourceVersion" THEN source ELSE targets])

\* a plausible slip: the target versions are copied without translation
_compatible_version_list_from_opensearch_raw_targets(compatible_version_list) ==
    IF compatible_version_list # None
    THEN List([i \in 1..Len(compatible_version_list.v) |->
                LET version_map == compatible_version_list.v[i]
                IN  CompatibleVersionsMap(
                        _version_from_opensearch(version_map.v["SourceVersion"]),
                        version_map.v["TargetVersions"])])
    ELSE None

_compatible_version_list_from_opensearch(compatible_version_list) ==
    IF compatible_version_list # None
    THEN List([i \in 1..Len(compatible_version_list.v) |->
                LET version_map == compatible_version_list.v[i]
                    targets == version_map.v["TargetVersions"]
                IN  CompatibleVersionsMap(
                        _version_from_opensearch(version_map.v["SourceVersion"]),
                        List([j \in 1..Len(targets.v) |->
                                _version_from_opensearch(targets.v[j])]))])
    ELSE None

(***************************************************************************)
(* The values the callers and the backend supply.                          *)
(***************************************************************************)
Num(n) == [t |-> "int", v |-> n]

\* characters a version text is made of: a digit, the dot and the underscore
VersionChars == {"7", ".", "_"}
VersionTails == UNION {[1..k -> VersionChars] : k \in 0..MaxVersionLen}
\* a version text with no dialect prefix, or with either of the two
VersionTexts == {p \o tl : p \in {<<>>, OpenSearch_, Elasticsearch_}, tl \in VersionTails}
VersionStrings == {Str(s) : s \in VersionTexts}

\* instance types of the two dialects
m5_large_elasticsearch == Str(<<"m", "5", ".", "l", "a", "r", "g", "e", ".">> \o elasticsearch)
m5_large_search == Str(<<"m", "5", ".", "l", "a", "r", "g", "e", ".">> \o search)
InstanceTypeStrings == {m5_large_elasticsearch, m5_large_search}

\* cluster configs: every subset of the three instance-type fields and of
\* one sizing field, the instance types all being itype
InstanceTypeKeys == {"InstanceType", "DedicatedMasterType", "WarmType"}
ClusterConfigsOf(itype) ==
    {Dict([k \in ks |-> IF k \in InstanceTypeKeys THEN itype ELSE Num(1)]) :
        ks \in SUBSET (InstanceTypeKeys \cup {"InstanceCount"})}
ElasticsearchClusterConfigs == ClusterConfigsOf(m5_large_elasticsearch)
ClusterConfigs == ClusterConfigsOf(m5_large_search)

\* what the backend may report as the engine version of a domain
EngineVersions == {_version_to_opensearch(v) : v \in VersionStrings}
\* two versions, one of each engine, for the members of lists
SampleVersions == {Str(Elasticsearch_ \o <<"7">>), Str(OpenSearch_ \o <<"7">>)}

DomainNames == {Str(<<"d", "1">>)}

\* current-dialect domain descriptors (status or config) of the backend
DomainDescriptors(versions, configs) ==
    {Dict([k \in {"DomainName"} \cup vk \cup ck |->
            IF k = "DomainName" THEN Str(<<"d", "1">>)
            ELSE IF k = "EngineVersion" THEN ev ELSE cc]) :
        vk \in {{}, {"EngineVersion"}}, ck \in {{}, {"ClusterConfig"}},
        ev \in versions, cc \in configs}
DomainStatuses == DomainDescriptors(EngineVersions, ClusterConfigs)
SampleDomainStatuses ==
    DomainDescriptors(SampleVersions, {Dict([k \in {"InstanceType"} |-> m5_large_search])})

\* lists of at most n members of S
ListsOf(S, n) == {List(q) : q \in UNION {[1..k -> S] : k \in 0..n}}

CompatibleVersionsLists ==
    ListsOf({CompatibleVersionsMap(sv, tv) :
                sv \in SampleVersions, tv \in ListsOf(SampleVersions, MaxListLen)},
            MaxListLen)

(***************************************************************************)
(* Outcomes of a call: a returned value or a raised error.                 *)
(***************************************************************************)
Return(x) == [kind |-> "return", value |-> x]
Raise(e) == [kind |-> "raise", error |-> e]
\* errors the backend client raises
BackendErrors == {"ResourceNotFoundException", "ValidationException"}
BackendRaises == {Raise(e) : e \in BackendErrors}

(***************************************************************************)
(* State: the call being served.  The provider keeps nothing between       *)
(* calls, so the state is the record of one call: what was passed, what    *)
(* the passed object holds afterwards, what was sent to the backend, what  *)
(* it answered, what its answer object holds afterwards, and the outcome.  *)
(***************************************************************************)
VARIABLES
    pc,          \* "idle" between calls, "done" when a call has ended
    op,          \* the function or operation called
    args,        \* the arguments, as they were when the call was made
    argObj,      \* the mutable argument object, as it is after the call
    calls,       \* the backend client calls made, in order
    backend,     \* the outcome of the backend call, as the backend produced it
    backendObj,  \* the backend's response object, as it is after the call
    events,      \* the analytics events fired
    result       \* the outcome of the call
vars == <<pc, op, args, argObj, calls, backend, backendObj, events, result>>

Init ==
    /\ pc = "idle"
    /\ op = "none"
    /\ args = None
    /\ argObj = None
    /\ calls = <<>>
    /\ backend = None
    /\ backendObj = None
    /\ events = <<>>
    /\ result = None

\* the call has ended and its outcome is with the caller
Done ==
    /\ pc = "done"
    /\ pc' = "idle"
    /\ op' = "none"
    /\ args' = None
    /\ argObj' = None
    /\ calls' = <<>>
    /\ backend' = None
    /\ backendObj' = None
    /\ events' = <<>>
    /\ result' = None

(***************************************************************************)
(* Calls of the translators on their own.  A str is immutable, so the      *)
(* passed object is afterwards what it was; a dict translator works on the *)
(* passed dict itself (cast() makes no copy), so the passed object is      *)
(* afterwards what the function returned.                                  *)
(***************************************************************************)
Translated(name, a, obj, ret) ==
    /\ pc' = "done"
    /\ op' = name
    /\ args' = a
    /\ argObj' = obj
    /\ calls' = <<>>
    /\ backend' = None
    /\ backendObj' = None
    /\ events' = <<>>
    /\ result' = Return(ret)

call_version_to_opensearch ==
    /\ pc = "idle"
    /\ \E version \in VersionStrings \cup {None} :
        Translated("_version_to_opensearch", [x |-> version], version,
                   _version_to_opensearch(version))

call_version_from_opensearch ==
    /\ pc = "idle"
    /\ \E version \in EngineVersions \cup {None} :
        Translated("_version_from_opensearch", [x |-> version], version,
                   _version_from_opensearch(version))

\* the version a translation to the current dialect returned, translated back
call_version_from_opensearch_of_result ==
    /\ pc = "done"
    /\ op = "_version_to_opensearch"
    /\ Translated("_version_from_opensearch", [x |-> result.value, origin |-> args.x],
                  result.value, _version_from_opensearch(result.value))

call_instancetype_to_opensearch ==
    /\ pc = "idle"
    /\ \E instance_type \in InstanceTypeStrings \cup {None} :
        Translated("_instancetype_to_opensearch", [x |-> instance_type],
                   instance_type, _instancetype_to_opensearch(instance_type))

call_instancetype_from_opensearch ==
    /\ pc = "idle"
    /\ \E instance_type \in InstanceTypeStrings \cup {None} :
        Translated("_instancetype_from_opensearch", [x |-> instance_type],
                   instance_type, _instancetype_from_opensearch(instance_type))

call_clusterconfig_to_opensearch ==
    /\ pc = "idle"
    /\ \E cluster_config \in ElasticsearchClusterConfigs \cup {None} :
        LET ret == _clusterconfig_to_opensearch(cluster_config)
        IN  Translated("_clusterconfig_to_opensearch", [x |-> cluster_config],
                       ret, ret)

call_clusterconfig_from_opensearch ==
    /\ pc = "idle"
    /\ \E cluster_config \in ClusterConfigs \cup {None} :
        LET ret == _clusterconfig_from_opensearch(cluster_config)
        IN  Translated("_clusterconfig_from_opensearch", [x |-> cluster_config],
                       ret, ret)

call_domainstatus_from_opensearch ==
    /\ pc = "idle"
    /\ \E domain_status \in DomainStatuses \cup {None} :
        LET ret == _domainstatus_from_opensearch(domain_status)
        IN  Translated("_domainstatus_from_opensearch", [x |-> domain_status],
                       ret, ret)

call_domainconfig_from_opensearch ==
    /\ pc = "idle"
    /\ \E domain_config \in DomainStatuses \cup {None} :
        LET ret == _domainconfig_from_opensearch(domain_config)
        IN  Translated("_domainconfig_from_opensearch", [x |-> domain_config],
                       ret, ret)

\* the list comprehension builds new lists and new maps
call_compatible_version_list_from_opensearch ==
    /\ pc = "idle"
    /\ \E compatible_version_list \in CompatibleVersionsLists \cup {None} :
        Translated("_compatible_version_list_from_opensearch",
                   [x |-> compatible_version_list],
                   compatible_version_list,
                   _compatible_version_list_from_opensearch(compatible_version_list))

TranslatorCall ==
    \/ call_version_to_opensearch
    \/ call_version_from_opensearch
    \/ call_version_from_opensearch_of_result
    \/ call_instancetype_to_opensearch
    \/ call_instancetype_from_opensearch
    \/ call_clusterconfig_to_opensearch
    \/ call_clusterconfig_from_opensearch
    \/ call_domainstatus_from_opensearch
    \/ call_domainconfig_from_opensearch
    \/ call_compatible_version_list_from_opensearch

(***************************************************************************)
(* The operations of EsProvider.  Each makes one call of the backend       *)
(* client; what the backend answers, and whether it raises, is its own     *)
(* choice.                                                                 *)
(***************************************************************************)
\* the value a caller gives to an option that is the same in both dialects
OptionValue == Dict([k \in {"Enabled"} |-> Num(1)])

\* the keyword of the backend request each parameter of create-domain fills
CreateParamOf ==
    [DomainName |-> "domain_name",
     EngineVersion |-> "elasticsearch_version",
     ClusterConfig |-> "elasticsearch_cluster_config",
     EBSOptions |-> "ebs_options",
     AccessPolicies |-> "access_policies",
     SnapshotOptions |-> "snapshot_options",
     VPCOptions |-> "vpc_options",
     CognitoOptions |-> "cognito_options",
     EncryptionAtRestOptions |-> "encryption_at_rest_options",
     NodeToNodeEncryptionOptions |-> "node_to_node_encryption_options",
     AdvancedOptions |-> "advanced_options",
     LogPublishingOptions |-> "log_publishing_options",
     DomainEndpointOptions |-> "domain_endpoint_options",
     AdvancedSecurityOptions |-> "advanced_security_options",
     AutoTuneOptions |-> "auto_tune_options",
     TagList |-> "tag_list"]
CreateKeys == DOMAIN CreateParamOf
CreateParams == {CreateParamOf[k] : k \in CreateKeys}
PassThroughParams ==
    CreateParams \ {"domain_name", "elasticsearch_version", "elasticsearch_cluster_config"}
\* which of the pass-through options a caller sets: none, one, or all
OptionChoices == {{}, PassThroughParams} \cup {{p} : p \in PassThroughParams}

\* a plausible slip: the kwargs are passed on as built, None values included
FilterNone_keeps_all(kwargs) == kwargs

\* {key: value for key, value in kwargs.items() if value is not None}
FilterNone(kwargs) ==
    Dict([k \in {kk \in Keys(kwargs) : kwargs.v[kk] # None} |-> kwargs.v[k]])

\* a plausible slip: the error of the callee is caught and another one raised
Propagate_remapped(outcome) == Raise("InternalError")

\* a call with no try/except around it: what the callee raises, the caller raises
Propagate(outcome) == outcome

\* if x: (None and the empty string are false)
Truthy(x) == x # None /\ x.v # <<>>

\* event_publisher.get_hash: a one-way hash of its argument
get_hash(x) == [t |-> "hash", of |-> x]
\* event_publisher.fire_event returns nothing, or fails
FireEventOutcomes == {Return(None), Raise("EventPublishError")}

\* the DomainStatus the backend returns for a create_domain request: the
\* version and the cluster config it was asked for
EchoDomainStatus(kwargs) ==
    Dict([k \in Keys(kwargs) \cap {"DomainName", "EngineVersion", "ClusterConfig"} |->
            kwargs.v[k]])

\* the state at the end of an operation
Served(name, a, obj, call, out, bobj, evs, res) ==
    /\ pc' = "done"
    /\ op' = name
    /\ args' = a
    /\ argObj' = obj
    /\ calls' = <<call>>
    /\ backend' = out
    /\ backendObj' = bobj
    /\ events' = evs
    /\ result' = res

create_elasticsearch_domain ==
    /\ pc = "idle"
    /\ \E domain_name \in DomainNames,
          elasticsearch_version \in VersionStrings \cup {None},
          elasticsearch_cluster_config \in ElasticsearchClusterConfigs \cup {None},
          set \in OptionChoices :
        LET a == [p \in CreateParams |->
                    IF p = "domain_name" THEN domain_name
                    ELSE IF p = "elasticsearch_version" THEN elasticsearch_version
                    ELSE IF p = "elasticsearch_cluster_config" THEN elasticsearch_cluster_config
                    ELSE IF p \in set THEN OptionValue ELSE None]
            cluster_config == _clusterconfig_to_opensearch(elasticsearch_cluster_config)
            kwargs == FilterNone(Dict([k \in CreateKeys |->
                        IF k = "EngineVersion" THEN _version_to_opensearch(elasticsearch_version)
                        ELSE IF k = "ClusterConfig" THEN cluster_config
                        ELSE a[CreateParamOf[k]]]))
            event == [event_type |-> "EVENT_ES_CREATE_DOMAIN", n |-> get_hash(domain_name)]
        IN  \E out \in BackendRaises
                        \cup {Return(Dict("DomainStatus" :> EchoDomainStatus(kwargs)))},
               pub \in FireEventOutcomes :
                LET status == _domainstatus_from_opensearch(out.value.v["DomainStatus"])
                    call == [fn |-> "create_domain", kwargs |-> kwargs]
                IN  IF out.kind = "raise"
                    THEN /\ pub = Return(None)
                         /\ Served("create_elasticsearch_domain", a, cluster_config, call,
                                   out, None, <<>>, Propagate(out))
                    ELSE IF pub.kind = "raise"
                    THEN Served("create_elasticsearch_domain", a, cluster_config, call,
                                out, out.value, <<event>>, Propagate(pub))
                    ELSE Served("create_elasticsearch_domain", a, cluster_config, call,
                                out, Dict("DomainStatus" :> status), <<event>>,
                                Return(Dict("DomainStatus" :> status)))

delete_elasticsearch_domain ==
    /\ pc = "idle"
    /\ \E domain_name \in DomainNames,
          out \in BackendRaises \cup {Return(Dict("DomainStatus" :> st)) : st \in DomainStatuses},
          pub \in FireEventOutcomes :
        LET status == _domainstatus_from_opensearch(out.value.v["DomainStatus"])
            call == [fn |-> "delete_domain", kwargs |-> Dict("DomainName" :> domain_name)]
            event == [event_type |-> "EVENT_ES_DELETE_DOMAIN", n |-> get_hash(domain_name)]
            a == [domain_name |-> domain_name]
        IN  IF out.kind = "raise"
            THEN /\ pub = Return(None)
                 /\ Served("delete_elasticsearch_domain", a, None, call,
                           out, None, <<>>, Propagate(out))
            ELSE IF pub.kind = "raise"
            THEN Served("delete_elasticsearch_domain", a, None, call,
                        out, out.value, <<event>>, Propagate(pub))
            ELSE Served("delete_elasticsearch_domain", a, None, call,
                        out, Dict("DomainStatus" :> status), <<event>>,
                        Return(Dict("DomainStatus" :> status)))

describe_elasticsearch_domain ==
    /\ pc = "idle"
    /\ \E domain_name \in DomainNames,
          out \in BackendRaises \cup {Return(Dict("DomainStatus" :> st)) : st \in DomainStatuses} :
        LET status == _domainstatus_from_opensearch(out.value.v["DomainStatus"])
            call == [fn |-> "describe_domain", kwargs |-> Dict("DomainName" :> domain_name)]
            a == [domain_name |-> domain_name]
        IN  IF out.kind = "raise"
            THEN Served("describe_elasticsearch_domain", a, None, call,
                        out, None, <<>>, Propagate(out))
            ELSE Served("describe_elasticsearch_domain", a, None, call,
                        out, Dict("DomainStatus" :> status), <<>>,
                        Return(Dict("DomainStatus" :> status)))

describe_elasticsearch_domains ==
    /\ pc = "idle"
    /\ \E domain_names \in ListsOf(DomainNames, MaxListLen),
          out \in BackendRaises
                    \cup {Return(Dict("DomainStatusList" :> l)) :
                            l \in ListsOf(SampleDomainStatuses, MaxListLen)} :
        LET opensearch_status_list == out.value.v["DomainStatusList"]
            status_list == List([i \in 1..Len(opensearch_status_list.v) |->
                                _domainstatus_from_opensearch(opensearch_status_list.v[i])])
            call == [fn |-> "describe_domains", kwargs |-> Dict("DomainNames" :> domain_names)]
            a == [domain_names |-> domain_names]
        IN  IF out.kind = "raise"
            THEN Served("describe_elasticsearch_domains", a, None, call,
                        out, None, <<>>, Propagate(out))
            ELSE Served("describe_elasticsearch_domains", a, None, call,
                        out, Dict("DomainStatusList" :> status_list), <<>>,
                        Return(Dict("DomainStatusList" :> status_list)))

\* the domain infos of a list_domain_names response
DomainInfos ==
    {Dict([k \in {"DomainName", "EngineType"} |->
            IF k = "DomainName" THEN d ELSE Str(<<"O", "p", "e", "n", "S", "e", "a", "r", "c", "h">>)]) :
        d \in DomainNames}
EngineTypes ==
    {Str(<<"O", "p", "e", "n", "S", "e", "a", "r", "c", "h">>),
     Str(<<"E", "l", "a", "s", "t", "i", "c", "s", "e", "a", "r", "c", "h">>)}

list_domain_names ==
    /\ pc = "idle"
    /\ \E engine_type \in EngineTypes \cup {None, Str(<<>>)},
          out \in BackendRaises
                    \cup {Return(Dict("DomainNames" :> l)) : l \in ListsOf(DomainInfos, MaxListLen)} :
        LET kwargs == IF Truthy(engine_type) THEN Dict("EngineType" :> engine_type) ELSE EmptyDict
            domain_names == out.value.v["DomainNames"]
            call == [fn |-> "list_domain_names", kwargs |-> kwargs]
            a == [engine_type |-> engine_type]
        IN  IF out.kind = "raise"
            THEN Served("list_domain_names", a, None, call, out, None, <<>>, Propagate(out))
            ELSE Served("list_domain_names", a, None, call, out, out.value, <<>>,
                        Return(Dict("DomainNames" :> domain_names)))

\* the text of the keys of a list_versions response
KeyText ==
    [Versions |-> <<"V", "e", "r", "s", "i", "o", "n", "s">>,
     NextToken |-> <<"N", "e", "x", "t", "T", "o", "k", "e", "n">>]
\* dict.get(key) where the key is a value of the program rather than a
\* literal: it finds an entry only if the value is a str that spells a key
GetByValue(d, key) ==
    IF key.t = "str" /\ \E k \in Keys(d) : KeyText[k] = key.v
    THEN d.v[CHOOSE k \in Keys(d) : KeyText[k] = key.v]
    ELSE None

\* pagination tokens: two opaque ones, and one that spells a response key
NextTokens == {Str(<<"t", "1">>), Str(<<"t", "2">>), Str(KeyText["NextToken"])}
\* what list_versions answers: a page of versions, and a token if there are more
ListVersionsResponses ==
    {Dict([k \in {"Versions"} \cup tk |-> IF k = "Versions" THEN vs ELSE tok]) :
        vs \in ListsOf(SampleVersions, MaxListLen),
        tk \in {{}, {"NextToken"}},
        tok \in {Str(<<"t", "1">>), Str(<<"t", "2">>)}}

list_elasticsearch_versions ==
    /\ pc = "idle"
    /\ \E max_results \in {None, Num(10)},
          next_token \in NextTokens \cup {None},
          out \in BackendRaises \cup {Return(r) : r \in ListVersionsResponses} :
        LET kwargs == FilterNone(Dict([k \in {"MaxResults", "NextToken"} |->
                                        IF k = "MaxResults" THEN max_results ELSE next_token]))
            versions == out.value
            call == [fn |-> "list_versions", kwargs |-> kwargs]
            a == [max_results |-> max_results, next_token |-> next_token]
        IN  IF out.kind = "raise"
            THEN Served("list_elasticsearch_versions", a, None, call,
                        out, None, <<>>, Propagate(out))
            ELSE Served("list_elasticsearch_versions", a, None, call, out, out.value, <<>>,
                        Return(Dict([k \in {"ElasticsearchVersions", "NextToken"} |->
                            IF k = "ElasticsearchVersions"
                            THEN List([i \in 1..Len(versions.v["Versions"].v) |->
                                        _version_from_opensearch(versions.v["Versions"].v[i])])
                            ELSE GetByValue(versions, next_token)])))

get_compatible_elasticsearch_versions ==
    /\ pc = "idle"
    /\ \E domain_name \in DomainNames \cup {None, Str(<<>>)},
          out \in BackendRaises \cup {Return(EmptyDict)}
                    \cup {Return(Dict("CompatibleVersions" :> l)) : l \in CompatibleVersionsLists} :
        LET kwargs == IF Truthy(domain_name) THEN Dict("DomainName" :> domain_name) ELSE EmptyDict
            compatible_versions == Get(out.value, "CompatibleVersions")
            call == [fn |-> "get_compatible_versions", kwargs |-> kwargs]
            a == [domain_name |-> domain_name]
        IN  IF out.kind = "raise"
            THEN Served("get_compatible_elasticsearch_versions", a, None, call,
                        out, None, <<>>, Propagate(out))
            ELSE Served("get_compatible_elasticsearch_versions", a, None, call,
                        out, out.value, <<>>,
                        Return(Dict("CompatibleElasticsearchVersions" :>
                            _compatible_version_list_from_opensearch(compatible_versions))))

describe_elasticsearch_domain_config ==
    /\ pc = "idle"
    /\ \E domain_name \in DomainNames,
          out \in BackendRaises \cup {Return(EmptyDict)}
                    \cup {Return(Dict("DomainConfig" :> dc)) : dc \in DomainStatuses} :
        LET domain_config == Get(out.value, "DomainConfig")
            translated == _domainconfig_from_opensearch(domain_config)
            call == [fn |-> "describe_domain_config", kwargs |-> Dict("DomainName" :> domain_name)]
            a == [domain_name |-> domain_name]
        IN  IF out.kind = "raise"
            THEN Served("describe_elasticsearch_domain_config", a, None, call,
                        out, None, <<>>, Propagate(out))
            ELSE Served("describe_elasticsearch_domain_config", a, None, call, out,
                        IF domain_config = None THEN out.value
                        ELSE Dict("DomainConfig" :> translated),
                        <<>>, Return(Dict("DomainConfig" :> translated)))

\* tags, their keys and the ARN they are attached to
ARNs == {Str(<<"a", "r", "n">>)}
Tags == {Dict([k \in {"Key", "Value"} |-> IF k = "Key" THEN Str(<<"k">>) ELSE Str(<<"v">>)])}
TagKeys == {Str(<<"k">>)}

add_tags ==
    /\ pc = "idle"
    /\ \E arn \in ARNs, tag_list \in ListsOf(Tags, MaxListLen),
          out \in BackendRaises \cup {Return(EmptyDict)} :
        LET call == [fn |-> "add_tags",
                     kwargs |-> Dict([k \in {"ARN", "TagList"} |->
                                        IF k = "ARN" THEN arn ELSE tag_list])]
            a == [arn |-> arn, tag_list |-> tag_list]
        IN  IF out.kind = "raise"
            THEN Served("add_tags", a, tag_list, call, out, None, <<>>, Propagate(out))
            ELSE Served("add_tags", a, tag_list, call, out, out.value, <<>>, Return(None))

list_tags ==
    /\ pc = "idle"
    /\ \E arn \in ARNs,
          out \in BackendRaises \cup {Return(EmptyDict)}
                    \cup {Return(Dict("TagList" :> l)) : l \in ListsOf(Tags, MaxListLen)} :
        LET response == out.value
            call == [fn |-> "list_tags", kwargs |-> Dict("ARN" :> arn)]
            a == [arn |-> arn]
        IN  IF out.kind = "raise"
            THEN Served("list_tags", a, None, call, out, None, <<>>, Propagate(out))
            ELSE Served("list_tags", a, None, call, out, out.value, <<>>,
                        Return(Dict("TagList" :> Get(response, "TagList"))))

remove_tags ==
    /\ pc = "idle"
    /\ \E arn \in ARNs, tag_keys \in ListsOf(TagKeys, MaxListLen),
          out \in BackendRaises \cup {Return(EmptyDict)} :
        LET call == [fn |-> "remove_tags",
                     kwargs |-> Dict([k \in {"ARN", "TagKeys"} |->
                                        IF k = "ARN" THEN arn ELSE tag_keys])]
            a == [arn |-> arn, tag_keys |-> tag_keys]
        IN  IF out.kind = "raise"
            THEN Served("remove_tags", a, tag_keys, call, out, None, <<>>, Propagate(out))
            ELSE Served("remove_tags", a, tag_keys, call, out, out.value, <<>>, Return(None))

Forwarded ==
    \/ create_elasticsearch_domain
    \/ delete_elasticsearch_domain
    \/ describe_elasticsearch_domain
    \/ describe_elasticsearch_domains
    \/ list_domain_names
    \/ list_elasticsearch_versions
    \/ get_compatible_elasticsearch_versions
    \/ describe_elasticsearch_domain_config
    \/ add_tags
    \/ list_tags
    \/ remove_tags

Next == TranslatorCall \/ Forwarded \/ Done
Spec == Init /\ [][Next]_vars

(***************************************************************************)
(* The properties.                                                         *)
(***************************************************************************)
CreateDone == pc = "done" /\ op = "create_elasticsearch_domain"
TranslatorDone(names) == pc = "done" /\ op \in names

\* C1: a create-domain request whose elasticsearch_version v does not start
\* with "OpenSearch_" makes one backend call with EngineVersion =
\* "Elasticsearch_" + v, and when the backend answers with that EngineVersion
\* the response has ElasticsearchVersion = v and no EngineVersion field.
C1_CreateLegacyVersion ==
    (/\ CreateDone
     /\ args["elasticsearch_version"] # None
     /\ ~StartsWith(args["elasticsearch_version"].v, OpenSearch_))
    => /\ Len(calls) = 1
       /\ Get(calls[1].kwargs, "EngineVersion")
            = Str(Elasticsearch_ \o args["elasticsearch_version"].v)
       /\ (/\ result.kind = "return"
           /\ Get(backend.value.v["DomainStatus"], "EngineVersion")
                = Get(calls[1].kwargs, "EngineVersion"))
          => /\ Get(result.value.v["DomainStatus"], "ElasticsearchVersion")
                    = args["elasticsearch_version"]
             /\ "EngineVersion" \notin Keys(result.value.v["DomainStatus"])

\* C2: in create-domain, a parameter the caller leaves unset is not a key of
\* the backend request at all (so no key of it has the value None), and
\* DomainName always is a key.
C2_UnsetOptionsOmitted ==
    CreateDone
    => LET kwargs == calls[1].kwargs
       IN  /\ "DomainName" \in Keys(kwargs)
           /\ \A k \in CreateKeys :
                args[CreateParamOf[k]] = None => k \notin Keys(kwargs)
           /\ \A k \in Keys(kwargs) : kwargs.v[k] # None

\* C2 happens: a create-domain call that left the version unset was made
C2_Witness ==
    /\ CreateDone
    /\ args["elasticsearch_version"] = None
    /\ args["ebs_options"] = None
    /\ args["tag_list"] # None
    /\ Keys(calls[1].kwargs) = {"DomainName", "TagList"}

\* C3: a version string that starts with neither "OpenSearch_" nor
\* "Elasticsearch_", translated to the current dialect and back, is itself.
C3_VersionRoundTrip ==
    (/\ TranslatorDone({"_version_from_opensearch"})
     /\ "origin" \in DOMAIN args
     /\ args.origin # None
     /\ ~StartsWith(args.origin.v, OpenSearch_)
     /\ ~StartsWith(args.origin.v, Elasticsearch_))
    => result.value = args.origin

\* C4: after a call of a dict translator on a present descriptor, the
\* descriptor object that was passed has the fields and values it had before.
C4_TranslatorsLeaveArgument ==
    (/\ TranslatorDone({"_clusterconfig_to_opensearch", "_clusterconfig_from_opensearch",
                        "_domainstatus_from_opensearch", "_domainconfig_from_opensearch"})
     /\ args.x # None)
    => argObj = args.x

\* C5: the legacy translation of a present domain status or config d has no
\* EngineVersion and no ClusterConfig field, has ElasticsearchVersion = the
\* legacy translation of d.EngineVersion and ElasticsearchClusterConfig = the
\* legacy translation of d.ClusterConfig, and has every other field of d
\* unchanged; an absent d translates to absent.
C5_DescriptorTranslation ==
    TranslatorDone({"_domainstatus_from_opensearch", "_domainconfig_from_opensearch"})
    => LET d == args.x
           r == result.value
       IN  IF d = None THEN r = None
           ELSE /\ r # None
                /\ "EngineVersion" \notin Keys(r)
                /\ "ClusterConfig" \notin Keys(r)
                /\ "ElasticsearchVersion" \in Keys(r)
                /\ r.v["ElasticsearchVersion"]
                        = _version_from_opensearch(Get(d, "EngineVersion"))
                /\ "ElasticsearchClusterConfig" \in Keys(r)
                /\ r.v["ElasticsearchClusterConfig"]
                        = _clusterconfig_from_opensearch(Get(d, "ClusterConfig"))
                /\ \A k \in Keys(d) \ {"EngineVersion", "ClusterConfig"} :
                        k \in Keys(r) /\ r.v[k] = d.v[k]

\* C5 happens: a status with a version, a cluster config and another field
\* was translated
C5_Witness ==
    /\ TranslatorDone({"_domainstatus_from_opensearch"})
    /\ args.x # None
    /\ {"EngineVersion", "ClusterConfig", "DomainName"} \subseteq Keys(args.x)
    /\ StartsWith(args.x.v["EngineVersion"].v, Elasticsearch_)
    /\ result.value.v["ElasticsearchVersion"] # args.x.v["EngineVersion"]

\* the compatible-versions list an operation was given and the one it returned
CompatibleGiven ==
    IF op = "_compatible_version_list_from_opensearch" THEN args.x
    ELSE Get(backend.value, "CompatibleVersions")
CompatibleReturned ==
    IF op = "_compatible_version_list_from_opensearch" THEN result.value
    ELSE result.value.v["CompatibleElasticsearchVersions"]

\* C6: the translation of a compatible-versions list L has the length of L;
\* its i-th entry has SourceVersion = the legacy translation of
\* L[i].SourceVersion and a TargetVersions list as long as L[i].TargetVersions
\* whose j-th element is the legacy translation of L[i].TargetVersions[j];
\* an empty list gives an empty list and an absent list gives absent.
C6_CompatibleVersions ==
    (/\ TranslatorDone({"_compatible_version_list_from_opensearch",
                        "get_compatible_elasticsearch_versions"})
     /\ result.kind = "return")
    => LET L == CompatibleGiven
           R == CompatibleReturned
       IN  IF L = None THEN R = None
           ELSE /\ R # None
                /\ Len(R.v) = Len(L.v)
                /\ \A i \in 1..Len(L.v) :
                    LET lt == L.v[i].v["TargetVersions"]
                        rt == R.v[i].v["TargetVersions"]
                    IN  /\ R.v[i].v["SourceVersion"]
                                = _version_from_opensearch(L.v[i].v["SourceVersion"])
                        /\ Len(rt.v) = Len(lt.v)
                        /\ \A j \in 1..Len(lt.v) :
                                rt.v[j] = _version_from_opensearch(lt.v[j])

\* C6 happens: get-compatible-versions returned a list of two entries, the
\* first with two targets of different engines
C6_Witness ==
    /\ TranslatorDone({"get_compatible_elasticsearch_versions"})
    /\ result.kind = "return"
    /\ CompatibleGiven # None
    /\ Len(CompatibleGiven.v) = 2
    /\ CompatibleGiven.v[1].v["TargetVersions"].v
            = <<Str(Elasticsearch_ \o <<"7">>), Str(OpenSearch_ \o <<"7">>)>>
    /\ CompatibleReturned.v[1].v["TargetVersions"].v
            = <<Str(<<"7">>), Str(OpenSearch_ \o <<"7">>)>>

\* C7: in create-domain and delete-domain, whenever the backend call
\* succeeded the operation returns the translated DomainStatus, whether or
\* not publishing the usage event fails.
C7_PublishFailureIsolated ==
    (/\ TranslatorDone({"create_elasticsearch_domain", "delete_elasticsearch_domain"})
     /\ backend.kind = "return")
    => result = Return(Dict("DomainStatus" :>
                    _domainstatus_from_opensearch(backend.value.v["DomainStatus"])))

\* C8: when the backend client call of a forwarded operation raises, that
\* very error reaches the caller, the backend was called exactly once, and
\* no response is returned.
C8_BackendErrorPropagates ==
    (/\ pc = "done"
     /\ calls # <<>>
     /\ backend.kind = "raise")
    => /\ result = backend
       /\ result.kind = "raise"
       /\ Len(calls) = 1

\* C8 happens: the backend raised in describe-domain
C8_Witness ==
    /\ TranslatorDone({"describe_elasticsearch_domain"})
    /\ backend = Raise("ResourceNotFoundException")
    /\ result = Raise("ResourceNotFoundException")

\* C9: the translation of a present cluster config c, in either direction,
\* has exactly the fields of c: the instance-type fields present in c carry
\* the translated type, those absent from c are absent, every other field
\* keeps its value; and the ClusterConfig create-domain sends to the backend
\* has no field whose value is None.
C9_ClusterConfigFields ==
    /\ (/\ TranslatorDone({"_clusterconfig_to_opensearch", "_clusterconfig_from_opensearch"})
        /\ args.x # None)
       => /\ Keys(result.value) = Keys(args.x)
          /\ \A k \in Keys(args.x) :
                result.value.v[k] =
                    IF k \notin InstanceTypeKeys THEN args.x.v[k]
                    ELSE IF op = "_clusterconfig_to_opensearch"
                         THEN _instancetype_to_opensearch(args.x.v[k])
                         ELSE _instancetype_from_opensearch(args.x.v[k])
    /\ (CreateDone /\ "ClusterConfig" \in Keys(calls[1].kwargs))
       => \A k \in Keys(calls[1].kwargs.v["ClusterConfig"]) :
                calls[1].kwargs.v["ClusterConfig"].v[k] # None

\* C10: the NextToken of a list-versions response is the NextToken of the
\* backend's list_versions response (absent when the backend returns none).
C10_NextTokenForwarded ==
    (/\ TranslatorDone({"list_elasticsearch_versions"})
     /\ result.kind = "return")
    => Get(result.value, "NextToken") = Get(backend.value, "NextToken")
====
